---------------------------- MODULE Spec2Model ----------------------------
(***************************************************************************)
(* State-machine model of src/llm/manager.rs (LlmManager): the hot-swapped *)
(* credential snapshot (ArcSwap<LlmConfig>), the rate-limit cooldown map   *)
(* behind a tokio RwLock, and the pure model-name resolver.                *)
(*                                                                         *)
(* Threads call the manager's methods concurrently.  Every method is cut   *)
(* into the steps at which it touches shared state (a snapshot load, a     *)
(* lock acquisition, a clock read, a map update), so that every            *)
(* interleaving the code allows is a behaviour of the model.               *)
(***************************************************************************)
EXTENDS Integers, Sequences, FiniteSets, TLC

(***************************************************************************)
(* Bounds of the model.                                                    *)
(***************************************************************************)
NumThreads == 2
MaxReloads == 1
MaxCalls == 2
MaxRateCalls == 3
MaxTime == 3
TicksPerSec == 2
MaxCooldown == 1
MaxLen == 4

Threads == 1 .. NumThreads

(***************************************************************************)
(* Option<T>: None is the empty sequence, Some(x) the one-element one.     *)
(***************************************************************************)
None == << >>
Some(x) == << x >>

(***************************************************************************)
(* LlmConfig: thirteen optional provider keys and the optional ollama base *)
(* URL.  A secret is a value tagged with the field it was configured for   *)
(* and a version, so that secrets of different providers and of different  *)
(* reloads are all distinct.                                               *)
(***************************************************************************)
KeyFields ==
    { "anthropic_key", "openai_key", "openrouter_key", "zhipu_key", "groq_key",
      "together_key", "fireworks_key", "deepseek_key", "xai_key", "mistral_key",
      "ollama_key", "opencode_zen_key", "nvidia_key" }

ConfigFields == KeyFields \cup { "ollama_base_url" }

Secret(f, v) == << "secret", f, v >>

MkConfig(S, v) ==
    [ f \in ConfigFields |-> IF f \in S THEN Some(Secret(f, v)) ELSE None ]

\* The sets of configured fields the reloads draw from.
FieldSets ==
    { {}, ConfigFields, { "openai_key", "ollama_key" },
      { "anthropic_key", "ollama_base_url" } }

\* The configurations generation `v` can install: every reload installs
\* freshly versioned secrets, so a snapshot's content tells which reload
\* installed it.
Configs(v) == { MkConfig(S, v) : S \in FieldSets }

(***************************************************************************)
(* Result<String>: Ok(secret), or one of the two LlmError variants         *)
(* carrying the provider string.                                           *)
(***************************************************************************)
Ok(s) == [ tag |-> "Ok", secret |-> s, provider |-> "" ]
MissingProviderKey(p) == [ tag |-> "MissingProviderKey", secret |-> None, provider |-> p ]
UnknownProvider(p) == [ tag |-> "UnknownProvider", secret |-> None, provider |-> p ]

\* Option::ok_or_else
ok_or_else(opt, err) == IF opt = None THEN err ELSE Ok(opt[1])

VARIABLES
    config,         \* ArcSwap<LlmConfig>: the current snapshot
    rate_limited,   \* HashMap<String, Instant> behind the RwLock
    lock_writer,    \* RwLock: the thread holding the write guard, if any
    lock_readers,   \* RwLock: the threads holding read guards
    lock_waiters,   \* RwLock: the FIFO queue of threads waiting for a guard
    now,            \* the monotonic clock (Instant::now()), in ticks
    pc,             \* each thread's position
    call,           \* each thread's current method and arguments
    guard,          \* get_api_key / ollama_base_url: the loaded snapshot
    limited_at,     \* record_rate_limit: the Instant::now() it read
    kept,           \* cleanup_rate_limits: entries retain has visited and kept
    held,           \* caller: what its get_api_key("ollama") just returned,
                    \* and Len(installed) when that call loaded the snapshot
    last,           \* history: the call that returned last, with its result
    installed,      \* history: every snapshot installed so far, in order
    started,        \* history: Len(installed) when the thread's call began
    stamped,        \* history: the instant the last record of each model stored
    waited,         \* history: whether the thread's call had to queue for the lock
    calls           \* number of calls made so far (bounded)

vars == << config, rate_limited, lock_writer, lock_readers, lock_waiters, now,
           pc, call, guard, limited_at, kept, held, last, installed, started,
           stamped, waited, calls >>

credVars == << config, installed >>
lockVars == << lock_writer, lock_readers, lock_waiters >>
rateVars == << rate_limited, lock_writer, lock_readers, lock_waiters, now, stamped >>
localVars == << guard, limited_at, kept >>

Models == { "m1", "m2" }
Cooldowns == 0 .. MaxCooldown

NoThread == 0
NoCall == [ op |-> "none", arg |-> << >>, secs |-> 0 ]
NoHeld == [ has |-> FALSE, res |-> UnknownProvider(""), idx |-> 0 ]
NoLast == [ op |-> "none", arg |-> << >>, res |-> None,
            started |-> 0, held |-> NoHeld, waited |-> FALSE ]

\* The record of thread t's call returning `res`.
Returned(t, res) ==
    [ op |-> call[t].op, arg |-> call[t].arg,
      res |-> res, started |-> started[t], held |-> held[t], waited |-> waited[t] ]

(***************************************************************************)
(* LlmManager::new                                                         *)
(***************************************************************************)
\* The manager as constructed from one of the configurations `initial`, with
\* the threads `T` about to call it.
InitOver(initial, T) ==
    /\ config \in initial
    /\ installed = << config >>
    /\ rate_limited = << >>
    /\ lock_writer = NoThread
    /\ lock_readers = {}
    /\ lock_waiters = << >>
    /\ now = 0
    /\ pc = [ t \in T |-> "idle" ]
    /\ call = [ t \in T |-> NoCall ]
    /\ guard = [ t \in T |-> None ]
    /\ limited_at = [ t \in T |-> 0 ]
    /\ kept = [ t \in T |-> {} ]
    /\ held = [ t \in T |-> NoHeld ]
    /\ last = NoLast
    /\ started = [ t \in T |-> 0 ]
    /\ stamped = [ m \in Models |-> None ]
    /\ waited = [ t \in T |-> FALSE ]
    /\ calls = 0

InitWith(initial) == InitOver(initial, Threads)

Init == InitWith(Configs(1))

\* The rate-limit tracker and the resolver never read the snapshot: for them
\* one initial configuration stands for all.
FixedInit == InitWith({ MkConfig(ConfigFields, 1) })

\* Thread t's call returns `res`: its frame is gone.
Return(t, res) ==
    /\ last' = Returned(t, res)
    /\ call' = [ call EXCEPT ![t] = NoCall ]
    /\ started' = [ started EXCEPT ![t] = 0 ]
    /\ waited' = [ waited EXCEPT ![t] = FALSE ]

\* Thread t begins a call: its arguments, and what the histories note.  A
\* caller keeps the ollama secret it holds only to pair it with the base URL.
Begin(t, op, arg, secs, budget) ==
    /\ pc[t] = "idle"
    /\ calls < budget
    /\ call' = [ call EXCEPT ![t] = [ op |-> op, arg |-> arg, secs |-> secs ] ]
    /\ started' = [ started EXCEPT ![t] = Len(installed) ]
    /\ held' = [ held EXCEPT ![t] = IF op = "ollama_base_url" THEN @ ELSE NoHeld ]
    /\ calls' = calls + 1

(***************************************************************************)
(* reload_config: one atomic pointer store.                                *)
(***************************************************************************)
\* A reload that copies the keys over and leaves the base URL in place.
reload_config_merge(t, c) ==
    /\ pc[t] = "idle"
    /\ Len(installed) <= MaxReloads
    /\ config' = [ c EXCEPT !.ollama_base_url = config.ollama_base_url ]
    /\ installed' = Append(installed, c)
    /\ UNCHANGED << rateVars, localVars, pc, call, held, last, started, waited, calls >>

\* A reload that also clears the cooldown map.
reload_config_flush(t, c) ==
    /\ pc[t] = "idle"
    /\ Len(installed) <= MaxReloads
    /\ config' = c
    /\ installed' = Append(installed, c)
    /\ rate_limited' = << >>
    /\ UNCHANGED << lockVars, now, stamped, localVars, pc, call, held, last,
                    started, waited, calls >>

reload_config(t, c) ==
    /\ pc[t] = "idle"
    /\ Len(installed) <= MaxReloads
    /\ config' = c
    /\ installed' = Append(installed, c)
    /\ UNCHANGED << rateVars, localVars, pc, call, held, last, started, waited, calls >>

(***************************************************************************)
(* get_api_key                                                             *)
(***************************************************************************)
\* The thirteen enumerated providers, each with the field that holds its key.
ProviderField ==
    [ p \in { "anthropic", "openai", "openrouter", "zhipu", "groq", "together",
              "fireworks", "deepseek", "xai", "mistral", "ollama", "opencode-zen",
              "nvidia" }
        |-> CASE p = "anthropic" -> "anthropic_key"
              [] p = "openai" -> "openai_key"
              [] p = "openrouter" -> "openrouter_key"
              [] p = "zhipu" -> "zhipu_key"
              [] p = "groq" -> "groq_key"
              [] p = "together" -> "together_key"
              [] p = "fireworks" -> "fireworks_key"
              [] p = "deepseek" -> "deepseek_key"
              [] p = "xai" -> "xai_key"
              [] p = "mistral" -> "mistral_key"
              [] p = "ollama" -> "ollama_key"
              [] p = "opencode-zen" -> "opencode_zen_key"
              [] p = "nvidia" -> "nvidia_key" ]

EnumeratedProviders == DOMAIN ProviderField

\* What the documentation promises of get_api_key on snapshot `cfg`.
ExpectedKey(cfg, p) ==
    IF p \in EnumeratedProviders
    THEN IF cfg[ProviderField[p]] = None
         THEN MissingProviderKey(p)
         ELSE Ok(cfg[ProviderField[p]][1])
    ELSE UnknownProvider(p)

\* A get_api_key whose catch-all arm reports a missing key.
get_api_key_match_nounknown(cfg, provider) ==
    IF provider \in EnumeratedProviders
    THEN ExpectedKey(cfg, provider)
    ELSE MissingProviderKey(provider)

\* A get_api_key that falls back to the anthropic key for a provider without one.
get_api_key_match_fallback(cfg, provider) ==
    IF provider \in EnumeratedProviders /\ cfg[ProviderField[provider]] = None
    THEN ok_or_else(cfg.anthropic_key, MissingProviderKey(provider))
    ELSE ExpectedKey(cfg, provider)

\* The match of get_api_key on the snapshot `cfg` it loaded.
get_api_key_match(cfg, provider) ==
    CASE provider = "anthropic" ->
           ok_or_else(cfg.anthropic_key, MissingProviderKey("anthropic"))
      [] provider = "openai" ->
           ok_or_else(cfg.openai_key, MissingProviderKey("openai"))
      [] provider = "openrouter" ->
           ok_or_else(cfg.openrouter_key, MissingProviderKey("openrouter"))
      [] provider = "zhipu" ->
           ok_or_else(cfg.zhipu_key, MissingProviderKey("zhipu"))
      [] provider = "groq" ->
           ok_or_else(cfg.groq_key, MissingProviderKey("groq"))
      [] provider = "together" ->
           ok_or_else(cfg.together_key, MissingProviderKey("together"))
      [] provider = "fireworks" ->
           ok_or_else(cfg.fireworks_key, MissingProviderKey("fireworks"))
      [] provider = "deepseek" ->
           ok_or_else(cfg.deepseek_key, MissingProviderKey("deepseek"))
      [] provider = "xai" ->
           ok_or_else(cfg.xai_key, MissingProviderKey("xai"))
      [] provider = "mistral" ->
           ok_or_else(cfg.mistral_key, MissingProviderKey("mistral"))
      [] provider = "ollama" ->
           ok_or_else(cfg.ollama_key, MissingProviderKey("ollama"))
      [] provider = "opencode-zen" ->
           ok_or_else(cfg.opencode_zen_key, MissingProviderKey("opencode-zen"))
      [] provider = "nvidia" ->
           ok_or_else(cfg.nvidia_key, MissingProviderKey("nvidia"))
      [] OTHER -> UnknownProvider(provider)

get_api_key_call(t, provider) ==
    /\ Begin(t, "get_api_key", provider, 0, MaxCalls)
    /\ pc' = [ pc EXCEPT ![t] = "key_load" ]
    /\ UNCHANGED << credVars, rateVars, localVars, last, waited >>

\* A load that returns the snapshot the manager was constructed with.
get_api_key_load_stale(t) ==
    /\ pc[t] = "key_load"
    /\ guard' = [ guard EXCEPT ![t] = Some(installed[1]) ]
    /\ held' = [ held EXCEPT ![t] =
                   IF call[t].arg = "ollama"
                   THEN [ NoHeld EXCEPT !.idx = Len(installed) ]
                   ELSE NoHeld ]
    /\ pc' = [ pc EXCEPT ![t] = "key_match" ]
    /\ UNCHANGED << credVars, rateVars, limited_at, kept, last, waited, call,
                    started, calls >>

\* A load that goes through the cooldown map's lock: it proceeds only while
\* no writer holds it.
get_api_key_load_locked(t) ==
    /\ pc[t] = "key_load"
    /\ lock_writer = NoThread
    /\ guard' = [ guard EXCEPT ![t] = Some(config) ]
    /\ held' = [ held EXCEPT ![t] =
                   IF call[t].arg = "ollama"
                   THEN [ NoHeld EXCEPT !.idx = Len(installed) ]
                   ELSE NoHeld ]
    /\ pc' = [ pc EXCEPT ![t] = "key_match" ]
    /\ UNCHANGED << credVars, rateVars, limited_at, kept, last, waited, call,
                    started, calls >>

\* let config = self.config.load();
get_api_key_load(t) ==
    /\ pc[t] = "key_load"
    /\ guard' = [ guard EXCEPT ![t] = Some(config) ]
    /\ held' = [ held EXCEPT ![t] =
                   IF call[t].arg = "ollama"
                   THEN [ NoHeld EXCEPT !.idx = Len(installed) ]
                   ELSE NoHeld ]
    /\ pc' = [ pc EXCEPT ![t] = "key_match" ]
    /\ UNCHANGED << credVars, rateVars, limited_at, kept, last, waited, call,
                    started, calls >>

\* match provider { ... }; the guard is dropped and the call returns.
get_api_key_return(t) ==
    /\ pc[t] = "key_match"
    /\ LET r == get_api_key_match(guard[t][1], call[t].arg) IN
         /\ Return(t, r)
         /\ held' = [ held EXCEPT ![t] =
                        IF call[t].arg = "ollama"
                        THEN [ has |-> TRUE, res |-> r, idx |-> held[t].idx ]
                        ELSE NoHeld ]
    /\ guard' = [ guard EXCEPT ![t] = None ]
    /\ pc' = [ pc EXCEPT ![t] = "idle" ]
    /\ UNCHANGED << credVars, rateVars, limited_at, kept, calls >>

(***************************************************************************)
(* ollama_base_url                                                         *)
(***************************************************************************)
ollama_base_url_call(t) ==
    /\ Begin(t, "ollama_base_url", << >>, 0, MaxCalls)
    /\ pc' = [ pc EXCEPT ![t] = "url_load" ]
    /\ UNCHANGED << credVars, rateVars, localVars, last, waited >>

\* self.config.load()
ollama_base_url_load(t) ==
    /\ pc[t] = "url_load"
    /\ guard' = [ guard EXCEPT ![t] = Some(config) ]
    /\ pc' = [ pc EXCEPT ![t] = "url_clone" ]
    /\ UNCHANGED << credVars, rateVars, limited_at, kept, held, last, waited, call,
                    started, calls >>

\* .ollama_base_url.clone(); the guard is dropped and the call returns.
ollama_base_url_return(t) ==
    /\ pc[t] = "url_clone"
    /\ Return(t, guard[t][1].ollama_base_url)
    /\ held' = [ held EXCEPT ![t] = NoHeld ]
    /\ guard' = [ guard EXCEPT ![t] = None ]
    /\ pc' = [ pc EXCEPT ![t] = "idle" ]
    /\ UNCHANGED << credVars, rateVars, limited_at, kept, calls >>

\* The provider strings the concurrent credential specification asks for.
ConcProviders == { "ollama" }

\* The field sets the concurrent credential specification reloads with.
ConcFieldSets == { ConfigFields, { "openai_key", "ollama_key" } }

CredNext ==
    \E t \in Threads :
        \/ \E S \in ConcFieldSets : reload_config(t, MkConfig(S, Len(installed) + 1))
        \/ \E p \in ConcProviders : get_api_key_call(t, p)
        \/ get_api_key_load(t)
        \/ get_api_key_return(t)
        \/ ollama_base_url_call(t)
        \/ ollama_base_url_load(t)
        \/ ollama_base_url_return(t)

SpecCred == Init /\ [][CredNext]_vars

(***************************************************************************)
(* get_api_key as a function of the provider string and the snapshot: one  *)
(* caller asks for every provider string, one watcher reloads.             *)
(***************************************************************************)
ProviderArgs == EnumeratedProviders \cup { "", "azure", "Anthropic", "opencode_zen" }

KeyNext ==
    \/ \E c \in Configs(Len(installed) + 1) : reload_config(2, c)
    \/ \E p \in ProviderArgs : get_api_key_call(1, p)
    \/ get_api_key_load(1)
    \/ get_api_key_return(1)

SpecKey == Init /\ [][KeyNext]_vars

(***************************************************************************)
(* The cooldown map's tokio::sync::RwLock.  Waiters queue first-in         *)
(* first-out: a guard is granted at once only when nobody is queued, and a *)
(* release hands the lock to the head of the queue (one writer, or every   *)
(* reader up to the next writer).                                          *)
(***************************************************************************)
IsWriter(t) == call[t].op \in { "record_rate_limit", "cleanup_rate_limits" }

\* Where a method stands once it holds its guard.
HoldPc(op) ==
    CASE op = "record_rate_limit" -> "rec_now"
      [] op = "is_rate_limited" -> "chk_get"
      [] op = "cleanup_rate_limits" -> "cln_retain"
      [] OTHER -> "idle"

RECURSIVE Grant(_, _, _, _)
Grant(w, r, q, writers) ==
    IF q = << >> THEN [ w |-> w, r |-> r, q |-> q ]
    ELSE IF Head(q) \in writers
         THEN IF w = NoThread /\ r = {}
              THEN [ w |-> Head(q), r |-> r, q |-> Tail(q) ]
              ELSE [ w |-> w, r |-> r, q |-> q ]
         ELSE IF w = NoThread
              THEN Grant(w, r \cup { Head(q) }, Tail(q), writers)
              ELSE [ w |-> w, r |-> r, q |-> q ]

\* A write lock that excludes readers only: a second writer gets the guard
\* while the first still holds it.
AcquireWrite_shared(t) ==
    IF lock_readers = {} /\ lock_waiters = << >>
    THEN /\ lock_writer' = t
         /\ pc' = [ pc EXCEPT ![t] = HoldPc(call'[t].op) ]
         /\ waited' = [ waited EXCEPT ![t] = FALSE ]
         /\ UNCHANGED << lock_readers, lock_waiters >>
    ELSE /\ lock_waiters' = Append(lock_waiters, t)
         /\ pc' = [ pc EXCEPT ![t] = "queued" ]
         /\ waited' = [ waited EXCEPT ![t] = TRUE ]
         /\ UNCHANGED << lock_writer, lock_readers >>

\* self.rate_limited.write().await, first poll: the guard or a place in the queue.
AcquireWrite(t) ==
    IF lock_writer = NoThread /\ lock_readers = {} /\ lock_waiters = << >>
    THEN /\ lock_writer' = t
         /\ pc' = [ pc EXCEPT ![t] = HoldPc(call'[t].op) ]
         /\ waited' = [ waited EXCEPT ![t] = FALSE ]
         /\ UNCHANGED << lock_readers, lock_waiters >>
    ELSE /\ lock_waiters' = Append(lock_waiters, t)
         /\ pc' = [ pc EXCEPT ![t] = "queued" ]
         /\ waited' = [ waited EXCEPT ![t] = TRUE ]
         /\ UNCHANGED << lock_writer, lock_readers >>

\* A read lock that hands out its guard whoever holds the lock.
AcquireRead_unguarded(t) ==
    /\ lock_readers' = lock_readers \cup { t }
    /\ pc' = [ pc EXCEPT ![t] = HoldPc(call'[t].op) ]
    /\ waited' = [ waited EXCEPT ![t] = FALSE ]
    /\ UNCHANGED << lock_writer, lock_waiters >>

\* A read lock that lets readers in whenever no writer holds it, past the
\* writers that wait.
AcquireRead_barging(t) ==
    IF lock_writer = NoThread
    THEN /\ lock_readers' = lock_readers \cup { t }
         /\ pc' = [ pc EXCEPT ![t] = HoldPc(call'[t].op) ]
         /\ waited' = [ waited EXCEPT ![t] = FALSE ]
         /\ UNCHANGED << lock_writer, lock_waiters >>
    ELSE /\ lock_waiters' = Append(lock_waiters, t)
         /\ pc' = [ pc EXCEPT ![t] = "queued" ]
         /\ waited' = [ waited EXCEPT ![t] = TRUE ]
         /\ UNCHANGED << lock_writer, lock_readers >>

\* self.rate_limited.read().await, first poll.
AcquireRead(t) ==
    IF lock_writer = NoThread /\ lock_waiters = << >>
    THEN /\ lock_readers' = lock_readers \cup { t }
         /\ pc' = [ pc EXCEPT ![t] = HoldPc(call'[t].op) ]
         /\ waited' = [ waited EXCEPT ![t] = FALSE ]
         /\ UNCHANGED << lock_writer, lock_waiters >>
    ELSE /\ lock_waiters' = Append(lock_waiters, t)
         /\ pc' = [ pc EXCEPT ![t] = "queued" ]
         /\ waited' = [ waited EXCEPT ![t] = TRUE ]
         /\ UNCHANGED << lock_writer, lock_readers >>

\* Thread t's guard is dropped as its call returns: the lock passes to the
\* head of the queue.
Release(t) ==
    LET g == Grant(IF lock_writer = t THEN NoThread ELSE lock_writer,
                   lock_readers \ { t }, lock_waiters,
                   { u \in DOMAIN pc : IsWriter(u) })
    IN /\ lock_writer' = g.w
       /\ lock_readers' = g.r
       /\ lock_waiters' = g.q
       /\ pc' = [ u \in DOMAIN pc |->
                    IF u = t THEN "idle"
                    ELSE IF pc[u] = "queued" /\ (u = g.w \/ u \in g.r)
                         THEN HoldPc(call[u].op)
                         ELSE pc[u] ]

\* Instant::elapsed(): the monotonic time since `instant`.
elapsed(instant) == now - instant

\* Duration::as_secs(): whole seconds, the fraction dropped.
as_secs(d) == d \div TicksPerSec

\* An insert that starts from a fresh map: every other entry is lost.
insert_fresh(map, k, v) == [ x \in { k } |-> v ]

\* An insert that keeps the value of a key already present (entry().or_insert).
insert_keep(map, k, v) ==
    [ x \in DOMAIN map \cup { k } |-> IF x \in DOMAIN map THEN map[x] ELSE v ]

\* HashMap::insert
insert(map, k, v) == [ x \in DOMAIN map \cup { k } |-> IF x = k THEN v ELSE map[x] ]

\* HashMap without the entry of k (retain's closure returned false for it).
remove(map, k) == [ x \in DOMAIN map \ { k } |-> map[x] ]

(***************************************************************************)
(* The clock: time passes between any two steps.  Only differences of      *)
(* instants are ever observed (Instant::elapsed), so the clock is advanced *)
(* only while some instant is stored in the map or about to be.            *)
(***************************************************************************)
Tick ==
    /\ now < MaxTime
    /\ DOMAIN rate_limited # {} \/ \E t \in DOMAIN pc : pc[t] = "rec_insert"
    /\ now' = now + 1
    /\ UNCHANGED << credVars, rate_limited, lockVars, stamped, localVars,
                    pc, call, held, last, started, waited, calls >>

(***************************************************************************)
(* record_rate_limit                                                       *)
(***************************************************************************)
\* self.rate_limited.write().await
record_rate_limit_call(t, model_name) ==
    /\ Begin(t, "record_rate_limit", model_name, 0, MaxRateCalls)
    /\ AcquireWrite(t)
    /\ UNCHANGED << credVars, rate_limited, now, stamped, localVars, last >>

\* A record whose instant was read before it queued for the lock: when the
\* call had to wait, the instant is older than the moment it got the guard.
record_rate_limit_now_early(t) ==
    /\ pc[t] = "rec_now"
    /\ limited_at' = [ limited_at EXCEPT ![t] =
                         IF waited[t] /\ now > 0 THEN now - 1 ELSE now ]
    /\ pc' = [ pc EXCEPT ![t] = "rec_insert" ]
    /\ UNCHANGED << credVars, rateVars, guard, kept, call, held, last, started,
                    waited, calls >>

\* Instant::now(), evaluated with the write guard held
record_rate_limit_now(t) ==
    /\ pc[t] = "rec_now"
    /\ limited_at' = [ limited_at EXCEPT ![t] = now ]
    /\ pc' = [ pc EXCEPT ![t] = "rec_insert" ]
    /\ UNCHANGED << credVars, rateVars, guard, kept, call, held, last, started,
                    waited, calls >>

\* .insert(model_name.to_string(), <instant>); the guard is dropped
record_rate_limit_insert(t) ==
    /\ pc[t] = "rec_insert"
    /\ rate_limited' = insert(rate_limited, call[t].arg, limited_at[t])
    /\ stamped' = [ stamped EXCEPT ![call[t].arg] = Some(limited_at[t]) ]
    /\ limited_at' = [ limited_at EXCEPT ![t] = 0 ]
    /\ Return(t, None)
    /\ Release(t)
    /\ UNCHANGED << credVars, now, guard, kept, held, calls >>

(***************************************************************************)
(* is_rate_limited                                                         *)
(***************************************************************************)
\* let map = self.rate_limited.read().await;
is_rate_limited_call(t, model_name, cooldown_secs) ==
    /\ Begin(t, "is_rate_limited", model_name, cooldown_secs, MaxRateCalls)
    /\ AcquireRead(t)
    /\ UNCHANGED << credVars, rate_limited, now, stamped, localVars, last >>

\* A body that treats a model without an entry as limited.
is_rate_limited_body_absent(map, model_name, cooldown_secs) ==
    IF model_name \in DOMAIN map
    THEN as_secs(elapsed(map[model_name])) < cooldown_secs
    ELSE cooldown_secs > 0

\* A body that compares with <= : limited for one second too long.
is_rate_limited_body_le(map, model_name, cooldown_secs) ==
    IF model_name \in DOMAIN map
    THEN as_secs(elapsed(map[model_name])) <= cooldown_secs
    ELSE FALSE

\* The body of is_rate_limited on the map it reads, at the current time.
is_rate_limited_body(map, model_name, cooldown_secs) ==
    IF model_name \in DOMAIN map
    THEN as_secs(elapsed(map[model_name])) < cooldown_secs
    ELSE FALSE

\* A check that evicts the entry it finds expired.
is_rate_limited_check_evict(t) ==
    /\ pc[t] = "chk_get"
    /\ Return(t, Some(is_rate_limited_body(rate_limited, call[t].arg, call[t].secs)))
    /\ Release(t)
    /\ rate_limited' =
         IF /\ call[t].arg \in DOMAIN rate_limited
            /\ ~is_rate_limited_body(rate_limited, call[t].arg, call[t].secs)
         THEN remove(rate_limited, call[t].arg)
         ELSE rate_limited
    /\ UNCHANGED << credVars, now, stamped, localVars, held, calls >>

\* map.get(model_name), the comparison, and the read guard's drop on return
is_rate_limited_check(t) ==
    /\ pc[t] = "chk_get"
    /\ Return(t, Some(is_rate_limited_body(rate_limited, call[t].arg, call[t].secs)))
    /\ Release(t)
    /\ UNCHANGED << credVars, rate_limited, now, stamped, localVars, held, calls >>

(***************************************************************************)
(* cleanup_rate_limits                                                     *)
(***************************************************************************)
\* self.rate_limited.write().await
cleanup_rate_limits_call(t, cooldown_secs) ==
    /\ Begin(t, "cleanup_rate_limits", << >>, cooldown_secs, MaxRateCalls)
    /\ AcquireWrite(t)
    /\ kept' = [ kept EXCEPT ![t] = {} ]
    /\ UNCHANGED << credVars, rate_limited, now, stamped, guard,
                    limited_at, last >>

\* A closure with the comparison inverted: retain keeps the expired entries.
retain_keeps_expired(instant, cooldown_secs) ==
    as_secs(elapsed(instant)) >= cooldown_secs

\* retain's closure: whether the entry recorded at `instant` is kept.
retain_keeps(instant, cooldown_secs) == as_secs(elapsed(instant)) < cooldown_secs

\* .retain(...) visits one entry, in the map's iteration order (any order)
cleanup_rate_limits_visit(t, k) ==
    /\ pc[t] = "cln_retain"
    /\ k \in DOMAIN rate_limited \ kept[t]
    /\ IF retain_keeps(rate_limited[k], call[t].secs)
       THEN /\ kept' = [ kept EXCEPT ![t] = @ \cup { k } ]
            /\ UNCHANGED rate_limited
       ELSE /\ rate_limited' = remove(rate_limited, k)
            /\ UNCHANGED kept
    /\ UNCHANGED << credVars, lockVars, now, stamped, guard, limited_at,
                    pc, call, held, last, started, waited, calls >>

\* retain has visited every entry; the write guard is dropped
cleanup_rate_limits_return(t) ==
    /\ pc[t] = "cln_retain"
    /\ DOMAIN rate_limited \subseteq kept[t]
    /\ Return(t, None)
    /\ kept' = [ kept EXCEPT ![t] = {} ]
    /\ Release(t)
    /\ UNCHANGED << credVars, rate_limited, now, stamped, guard, limited_at, held,
                    calls >>

RateNext ==
    \/ Tick
    \/ \E t \in Threads :
        \/ \E m \in Models : record_rate_limit_call(t, m)
        \/ record_rate_limit_now(t)
        \/ record_rate_limit_insert(t)
        \/ \E m \in Models, d \in Cooldowns : is_rate_limited_call(t, m, d)
        \/ is_rate_limited_check(t)
        \/ \E d \in Cooldowns : cleanup_rate_limits_call(t, d)
        \/ \E k \in Models : cleanup_rate_limits_visit(t, k)
        \/ cleanup_rate_limits_return(t)

SpecRate == FixedInit /\ [][RateNext]_vars

\* The tracker with no cleanup ever called: records and checks only.
RecordNext ==
    \/ Tick
    \/ \E t \in Threads :
        \/ \E m \in Models : record_rate_limit_call(t, m)
        \/ record_rate_limit_now(t)
        \/ record_rate_limit_insert(t)
        \/ \E m \in Models, d \in Cooldowns : is_rate_limited_call(t, m, d)
        \/ is_rate_limited_check(t)

SpecRecord == FixedInit /\ [][RecordNext]_vars

(***************************************************************************)
(* resolve_model                                                           *)
(***************************************************************************)
Chars == { "/", "a", "b" }

RECURSIVE StringsOfLen(_)
StringsOfLen(n) ==
    IF n = 0 THEN { << >> }
    ELSE { Append(s, c) : s \in StringsOfLen(n - 1), c \in Chars }

Str_openai_gpt4 == << "o", "p", "e", "n", "a", "i", "/", "g", "p", "t", "-", "4" >>
Str_claude3 == << "c", "l", "a", "u", "d", "e", "-", "3" >>
Str_anthropic == << "a", "n", "t", "h", "r", "o", "p", "i", "c" >>

\* The model names resolve_model is called with.
ModelNames ==
    UNION { StringsOfLen(n) : n \in 0 .. MaxLen } \cup { Str_openai_gpt4, Str_claude3 }

\* str::find(c): the index of the first c at or after i, 0 when there is none.
RECURSIVE find(_, _, _)
find(s, c, i) ==
    IF i > Len(s) THEN 0
    ELSE IF s[i] = c THEN i
    ELSE find(s, c, i + 1)

\* The index of the last c at or before i, 0 when there is none.
RECURSIVE rfind(_, _, _)
rfind(s, c, i) ==
    IF i < 1 THEN 0
    ELSE IF s[i] = c THEN i
    ELSE rfind(s, c, i - 1)

\* str::rsplit_once: split at the last c.
split_once_last(s, c) ==
    LET i == rfind(s, c, Len(s))
    IN IF i = 0 THEN None
       ELSE Some(<< SubSeq(s, 1, i - 1), SubSeq(s, i + 1, Len(s)) >>)

\* str::split_once: split at the first c.
split_once(s, c) ==
    LET i == find(s, c, 1)
    IN IF i = 0 THEN None
       ELSE Some(<< SubSeq(s, 1, i - 1), SubSeq(s, i + 1, Len(s)) >>)

\* A resolver whose default provider is the one the snapshot has a key for.
resolve_model_value_configured(model_name) ==
    LET split == split_once(model_name, "/")
    IN IF split # None
       THEN [ tag |-> "Ok", provider |-> split[1][1], model |-> split[1][2] ]
       ELSE [ tag |-> "Ok",
              provider |-> IF config.anthropic_key # None
                           THEN Str_anthropic
                           ELSE << "o", "p", "e", "n", "a", "i" >>,
              model |-> model_name ]

\* The value resolve_model returns: Ok((provider, model)).
resolve_model_value(model_name) ==
    LET split == split_once(model_name, "/")
    IN IF split # None
       THEN [ tag |-> "Ok", provider |-> split[1][1], model |-> split[1][2] ]
       ELSE [ tag |-> "Ok", provider |-> Str_anthropic, model |-> model_name ]

resolve_model(t, model_name) ==
    /\ pc[t] = "idle"
    /\ calls < MaxCalls
    /\ calls' = calls + 1
    /\ last' = [ NoLast EXCEPT !.op = "resolve_model", !.arg = model_name,
                               !.res = resolve_model_value(model_name) ]
    /\ UNCHANGED << credVars, rateVars, localVars, pc, call, held, started, waited >>

ResolveNext == \E t \in Threads, s \in ModelNames : resolve_model(t, s)

SpecResolve == FixedInit /\ [][ResolveNext]_vars

(***************************************************************************)
(* The whole manager.                                                      *)
(***************************************************************************)
Next == CredNext \/ KeyNext \/ RateNext \/ ResolveNext

Spec == Init /\ [][Next]_vars

(***************************************************************************)
(* Properties of the credential store.                                     *)
(***************************************************************************)
IsRead(op) == op \in { "get_api_key", "ollama_base_url" }

\* What a read must answer when it reads snapshot `cfg`.
Answer(cfg, op, arg) ==
    IF op = "get_api_key" THEN ExpectedKey(cfg, arg) ELSE cfg.ollama_base_url

\* C1: a get_api_key or ollama_base_url call running concurrently with
\* reloads holds one whole installed snapshot (one that was current at some
\* point between the call's start and now), and the value or error it
\* returns is the answer of one such snapshot; fields of two snapshots are
\* never mixed.
C1_OneSnapshot ==
    /\ \A t \in Threads :
         guard[t] # None =>
           \E i \in started[t] .. Len(installed) : guard[t][1] = installed[i]
    /\ IsRead(last.op) =>
         \E i \in last.started .. Len(installed) :
            last.res = Answer(installed[i], last.op, last.arg)

\* A read that began before a reload and returned after it, answering from
\* the snapshot the reload replaced.
C1_Witness ==
    /\ last.op = "get_api_key"
    /\ Len(installed) > last.started
    /\ last.res = Answer(installed[last.started], last.op, last.arg)
    /\ last.res # Answer(installed[Len(installed)], last.op, last.arg)

\* The secret a snapshot gives for ollama.
OllamaKey(cfg) == ExpectedKey(cfg, "ollama")

\* C2 as stated: the ollama secret and the base URL a caller obtained with
\* two reads always come from one and the same snapshot.
C2_Original ==
    (last.op = "ollama_base_url" /\ last.held.has /\ last.held.res.tag = "Ok") =>
       \E i \in 1 .. Len(installed) :
          /\ last.held.res = OllamaKey(installed[i])
          /\ last.res = installed[i].ollama_base_url

\* C2 amended: the secret and the base URL a caller obtained with two reads
\* come from one and the same snapshot whenever no reload_config happened
\* since the first read loaded its snapshot; in every case the secret is one
\* installed snapshot's and the URL that of a snapshot at least as recent.
C2_PairConsistentWithoutReload ==
    (last.op = "ollama_base_url" /\ last.held.has) =>
       /\ \E i \in 1 .. Len(installed) : \E j \in i .. Len(installed) :
             /\ last.held.res = OllamaKey(installed[i])
             /\ last.res = installed[j].ollama_base_url
       /\ Len(installed) = last.held.idx =>
             /\ last.held.res = OllamaKey(installed[last.held.idx])
             /\ last.res = installed[last.held.idx].ollama_base_url

\* A caller that read the secret and then the URL after a reload, with no
\* reload in between.
C2_Witness ==
    /\ last.op = "ollama_base_url"
    /\ last.held.has
    /\ last.held.res.tag = "Ok"
    /\ Len(installed) = last.held.idx
    /\ Len(installed) >= 2
    /\ last.res # None

\* C3: a read that starts after a reload_config(c) returned, with no reload
\* since, loads c and answers from c: no read answers from a snapshot older
\* than the most recently completed reload.
C3_ReadsSeeLatestReload ==
    /\ \A t \in Threads :
         (pc[t] \in { "key_match", "url_clone" } /\ Len(installed) = started[t]) =>
            guard[t] = Some(config)
    /\ (IsRead(last.op) /\ Len(installed) = last.started) =>
         last.res = Answer(config, last.op, last.arg)
    /\ config = installed[Len(installed)]

\* A read that started after a reload and answered from the reloaded snapshot,
\* which differs from what the replaced snapshot would have answered.
C3_Witness ==
    /\ IsRead(last.op)
    /\ Len(installed) = last.started
    /\ Len(installed) >= 2
    /\ last.res = Answer(config, last.op, last.arg)
    /\ last.res # Answer(installed[1], last.op, last.arg)

\* C4: for a provider string outside the thirteen enumerated ones,
\* get_api_key fails with UnknownProvider carrying that string, whatever the
\* snapshot holds; it returns no secret and no MissingProviderKey.
C4_UnknownProvider ==
    (last.op = "get_api_key"
       /\ last.arg \notin { "anthropic", "openai", "openrouter", "zhipu", "groq",
                            "together", "fireworks", "deepseek", "xai", "mistral",
                            "ollama", "opencode-zen", "nvidia" }) =>
       /\ last.res.tag = "UnknownProvider"
       /\ last.res.provider = last.arg
       /\ last.res.secret = None

\* An unknown provider asked of a snapshot that configures every key.
C4_Witness ==
    /\ last.op = "get_api_key"
    /\ last.arg = "opencode_zen"
    /\ last.res = UnknownProvider("opencode_zen")
    /\ Len(installed) = last.started
    /\ \A f \in KeyFields : config[f] # None

\* C5: for an enumerated provider p, get_api_key(p) returns exactly the
\* secret the snapshot it read holds for p, and fails with
\* MissingProviderKey(p) when the snapshot holds none; never another
\* provider's secret.
C5_ConfiguredKeyOrMissing ==
    (last.op = "get_api_key" /\ last.arg \in EnumeratedProviders) =>
       \E i \in last.started .. Len(installed) :
          LET key == installed[i][ProviderField[last.arg]]
          IN IF key = None
             THEN last.res = MissingProviderKey(last.arg)
             ELSE /\ last.res = Ok(key[1])
                  /\ key[1][2] = ProviderField[last.arg]

\* anthropic has no key while openai has one: MissingProviderKey("anthropic").
C5_Witness ==
    /\ last.op = "get_api_key"
    /\ last.arg = "anthropic"
    /\ last.res = MissingProviderKey("anthropic")
    /\ Len(installed) = last.started
    /\ config.anthropic_key = None
    /\ config.openai_key # None

(***************************************************************************)
(* Properties of the rate-limit tracker.                                   *)
(***************************************************************************)
\* No record_rate_limit(m) has been called: none is in progress, none returned.
NeverRecorded(m) ==
    /\ stamped[m] = None
    /\ \A t \in Threads : ~(call[t].op = "record_rate_limit" /\ call[t].arg = m)

\* C6: is_rate_limited(m, d) returns false as long as record_rate_limit(m)
\* has never been called, whatever was recorded for other models and
\* whatever cleanups ran.
C6_FalseBeforeAnyRecord ==
    (last.op = "is_rate_limited" /\ NeverRecorded(last.arg)) => last.res = Some(FALSE)

\* A check of a never-recorded model while the other model has an entry.
C6_Witness ==
    /\ last.op = "is_rate_limited"
    /\ NeverRecorded(last.arg)
    /\ last.res = Some(FALSE)
    /\ DOMAIN rate_limited # {}

\* Thread t's is_rate_limited evaluates its body and returns in this step.
CheckStep(t) == pc[t] = "chk_get" /\ pc'[t] = "idle"

\* The check thread t makes in this step is within d seconds of instant T.
WithinCooldown(t, T) == now < T + call[t].secs * TicksPerSec

\* C7 as stated: once record_rate_limit(m) stamped T, and until the next
\* record of m, a check at a time before T+d returns true and a check at or
\* after T+d returns false.
C7_Original ==
    [][ \A t \in Threads :
          (CheckStep(t) /\ stamped[call[t].arg] # None) =>
             last'.res = Some(WithinCooldown(t, stamped[call[t].arg][1])) ]_vars

\* C7 amended: once record_rate_limit(m) stamped T, and until the next
\* record of m, for as long as no cleanup_rate_limits has removed m's entry
\* a check at a time before T+d returns true and a check at or after T+d
\* returns false (so with d = 0 every check returns false); once a cleanup
\* has removed the entry every check returns false.
C7_CooldownWindowUnlessCleaned ==
    [][ \A t \in Threads :
          (CheckStep(t) /\ stamped[call[t].arg] # None) =>
             IF call[t].arg \in DOMAIN rate_limited
             THEN last'.res = Some(WithinCooldown(t, stamped[call[t].arg][1]))
             ELSE last'.res = Some(FALSE) ]_vars

\* A check that returned true part-way through the cooldown of a recorded model.
C7_Witness ==
    /\ last.op = "is_rate_limited"
    /\ last.res = Some(TRUE)
    /\ stamped[last.arg] # None
    /\ last.arg \in DOMAIN rate_limited
    /\ now > stamped[last.arg][1]
    /\ now < stamped[last.arg][1] + MaxCooldown * TicksPerSec

\* C8: every step of cleanup_rate_limits(d) either removes one entry whose
\* elapsed time is at least d seconds, or keeps one whose elapsed time is
\* less, and changes nothing else in the map; it returns once every entry has
\* been visited, and adds none.
C8_CleanupRemovesExactlyExpired ==
    [][ \A t \in Threads :
          pc[t] = "cln_retain" =>
            /\ DOMAIN rate_limited' \subseteq DOMAIN rate_limited
            /\ \A k \in DOMAIN rate_limited' : rate_limited'[k] = rate_limited[k]
            /\ \A k \in DOMAIN rate_limited \ DOMAIN rate_limited' :
                 /\ now - rate_limited[k] >= call[t].secs * TicksPerSec
                 /\ DOMAIN rate_limited' = DOMAIN rate_limited \ { k }
            /\ \A k \in kept'[t] \ kept[t] :
                 /\ now - rate_limited[k] < call[t].secs * TicksPerSec
                 /\ k \in DOMAIN rate_limited'
            /\ pc'[t] = "idle" => DOMAIN rate_limited \subseteq kept[t] ]_vars

\* A cleanup under way that removed one model's entry and kept the other's.
C8_Witness ==
    \E t \in Threads : \E k \in Models :
       /\ pc[t] = "cln_retain"
       /\ call[t].secs > 0
       /\ kept[t] # {}
       /\ kept[t] = DOMAIN rate_limited
       /\ stamped[k] # None
       /\ k \notin DOMAIN rate_limited

\* C9: with no cleanup running, once concurrent record_rate_limit calls on
\* distinct models have completed the map holds an entry for every one of
\* them: no record is lost.
C9_NoLostRecord ==
    \A m \in Models : stamped[m] # None => m \in DOMAIN rate_limited

\* Two records of distinct models overlapped (the second queued for the lock
\* behind the first); both are in the map.
C9_Witness ==
    /\ calls = 2
    /\ last.op = "record_rate_limit"
    /\ last.waited
    /\ DOMAIN rate_limited = Models
    /\ \A t \in Threads : pc[t] = "idle"

(***************************************************************************)
(* Properties of the resolver.                                             *)
(***************************************************************************)
HasSlash(s) == \E i \in 1 .. Len(s) : s[i] = "/"

FirstSlash(s) == CHOOSE i \in 1 .. Len(s) : s[i] = "/" /\ \A j \in 1 .. i - 1 : s[j] # "/"

\* C10: resolve_model(s) returns (text before the first '/', text after it)
\* when s contains a '/', and ("anthropic", s) when it contains none;
\* "openai/gpt-4" gives ("openai", "gpt-4"), "claude-3" gives
\* ("anthropic", "claude-3").
C10_ResolveSplitsAtFirstSlash ==
    last.op = "resolve_model" =>
       /\ last.res.tag = "Ok"
       /\ IF HasSlash(last.arg)
          THEN /\ last.res.provider = SubSeq(last.arg, 1, FirstSlash(last.arg) - 1)
               /\ last.res.model =
                    SubSeq(last.arg, FirstSlash(last.arg) + 1, Len(last.arg))
          ELSE /\ last.res.provider = << "a", "n", "t", "h", "r", "o", "p", "i", "c" >>
               /\ last.res.model = last.arg
       /\ last.arg = Str_openai_gpt4 =>
            /\ last.res.provider = << "o", "p", "e", "n", "a", "i" >>
            /\ last.res.model = << "g", "p", "t", "-", "4" >>
       /\ last.arg = Str_claude3 =>
            /\ last.res.provider = << "a", "n", "t", "h", "r", "o", "p", "i", "c" >>
            /\ last.res.model = Str_claude3

\* A name with two separators: the model keeps the second one.
C10_Witness ==
    /\ last.op = "resolve_model"
    /\ last.arg = << "a", "/", "b", "/" >>
    /\ last.res.provider = << "a" >>
    /\ last.res.model = << "b", "/" >>

(***************************************************************************)
(* The tracker with and without cleanup.                                   *)
(***************************************************************************)
\* What is_rate_limited would answer in this step had no cleanup ever run:
\* the map would hold, for each model, the instant its last record stored.
NoCleanupResult(t) ==
    /\ stamped[call[t].arg] # None
    /\ WithinCooldown(t, stamped[call[t].arg][1])

\* Thread t's cleanup_rate_limits removes the entry of k in this step.
RemoveStep(t, k) ==
    /\ pc[t] = "cln_retain"
    /\ k \in DOMAIN rate_limited
    /\ k \notin DOMAIN rate_limited'

\* The cooldown of d seconds that the last record of m started is over.
Expired(m, d) == now >= stamped[m][1] + d * TicksPerSec

\* C11 as stated: is_rate_limited(m, d) returns what it would return had no
\* cleanup_rate_limits call, with whatever cooldown, been interleaved.
C11_Original ==
    [][ \A t \in Threads :
          CheckStep(t) => last'.res = Some(NoCleanupResult(t)) ]_vars

\* C11 amended: is_rate_limited(m, d) returns what it would return had no
\* cleanup run as long as the entry of m is still in the map, and false once
\* a cleanup has removed it; cleanup_rate_limits(d') removes an entry only
\* when the cooldown of every d <= d' is over for it, and a cooldown that is
\* over stays over until the next record.  So the result is the same with
\* or without cleanups whose cooldown is at least d, and a cleanup with a
\* smaller cooldown can only turn a true into a false.
C11_SameUnlessShorterCleanup ==
    [][ /\ \A t \in Threads :
             CheckStep(t) =>
                last'.res = Some(call[t].arg \in DOMAIN rate_limited
                                   /\ NoCleanupResult(t))
        /\ \A t \in Threads : \A k \in Models :
             RemoveStep(t, k) =>
                /\ stamped[k] = Some(rate_limited[k])
                /\ \A d \in Cooldowns : d <= call[t].secs => Expired(k, d)
        /\ \A m \in Models : \A d \in Cooldowns :
             (stamped[m] # None /\ stamped'[m] = stamped[m] /\ Expired(m, d))
                => now' >= stamped'[m][1] + d * TicksPerSec ]_vars

\* A check that returned false after a cleanup removed the model's entry at
\* a time when every cooldown was over for it: false with or without cleanup.
C11_Witness ==
    /\ last.op = "is_rate_limited"
    /\ last.res = Some(FALSE)
    /\ stamped[last.arg] # None
    /\ last.arg \notin DOMAIN rate_limited
    /\ Expired(last.arg, MaxCooldown)
    /\ \A t \in Threads : pc[t] = "idle"

(***************************************************************************)
(* The tracker under load: one thread more than elsewhere, so that two     *)
(* readers can overlap while a writer waits, calls that keep arriving, a   *)
(* scheduler that polls every runnable task again, and the lock's          *)
(* first-in first-out queue.                                               *)
(***************************************************************************)
LiveThreads == 1 .. NumThreads + 1

Min(S) == CHOOSE x \in S : \A y \in S : x <= y
Max(S) == CHOOSE x \in S : \A y \in S : x >= y

\* The thread that records and the timer that cleans up; every thread checks.
Recorder == Min(LiveThreads)
Cleaner == Max(LiveThreads)

LiveInit == InitOver({ MkConfig(ConfigFields, 1) }, LiveThreads)

\* The callers come back for more: the count of calls explored starts over.
MoreCalls ==
    /\ calls = MaxRateCalls
    /\ calls' = 0
    /\ UNCHANGED << credVars, rateVars, localVars, pc, call, held, last, started,
                    waited >>

\* A step of a call of thread t that is past its first poll of the lock.
Proceed(t) ==
    \/ record_rate_limit_now(t)
    \/ record_rate_limit_insert(t)
    \/ is_rate_limited_check(t)
    \/ \E k \in Models : cleanup_rate_limits_visit(t, k)
    \/ cleanup_rate_limits_return(t)

\* Whether a call gets the lock does not depend on the model it names, on
\* its cooldown or on the time: one model, one cooldown and a clock that
\* stands still stand for all.
LiveNext ==
    \/ MoreCalls
    \/ record_rate_limit_call(Recorder, "m1")
    \/ cleanup_rate_limits_call(Cleaner, 0)
    \/ \E t \in LiveThreads :
        \/ is_rate_limited_call(t, "m1", 0)
        \/ Proceed(t)

\* The scheduler is fair to every task that holds a guard.
LiveFairness == \A t \in LiveThreads : WF_vars(Proceed(t))

SpecLive == LiveInit /\ [][LiveNext]_vars /\ LiveFairness

\* Thread t holds a guard of the cooldown map's lock.
HoldsLock(t) == lock_writer = t \/ t \in lock_readers

\* C12: under a fair scheduler and the lock's queue, every record_rate_limit
\* and cleanup_rate_limits call that has started obtains the write guard
\* and returns, however is_rate_limited calls keep arriving, and no thread
\* holds a guard of the lock forever.
C12_WritersComplete ==
    \A t \in LiveThreads :
        /\ IsWriter(t) ~> (lock_writer = t)
        /\ (call[t].op # "none") ~> (call[t].op = "none" /\ ~HoldsLock(t))

\* A writer queued behind two readers that hold the lock together.
C12_Witness ==
    \E t \in LiveThreads :
        /\ IsWriter(t)
        /\ pc[t] = "queued"
        /\ Cardinality(lock_readers) >= 2

(***************************************************************************)
(* Every method of the manager, called concurrently on one manager: the    *)
(* credential store, the cooldown map and the resolver together.           *)
(***************************************************************************)
\* The model names the threads resolve here: empty, a lone separator, a
\* leading separator, and a provider with a model.
AllNames == { << >>, << "/" >>, << "/", "a" >>, << "a", "/", "b" >> }

AllNext ==
    \E t \in Threads :
        \/ reload_config(t, MkConfig({ "openai_key" }, Len(installed) + 1))
        \/ \E p \in { "ollama", "azure" } : get_api_key_call(t, p)
        \/ get_api_key_load(t)
        \/ get_api_key_return(t)
        \/ ollama_base_url_call(t)
        \/ ollama_base_url_load(t)
        \/ ollama_base_url_return(t)
        \/ \E s \in AllNames : resolve_model(t, s)
        \/ record_rate_limit_call(t, "m1")
        \/ record_rate_limit_now(t)
        \/ record_rate_limit_insert(t)
        \/ is_rate_limited_call(t, "m1", MaxCooldown)
        \/ is_rate_limited_check(t)
        \/ cleanup_rate_limits_call(t, 0)
        \/ \E k \in Models : cleanup_rate_limits_visit(t, k)
        \/ cleanup_rate_limits_return(t)

SpecAll == FixedInit /\ [][AllNext]_vars

\* C13: in every reachable state each step of get_api_key and of
\* ollama_base_url can be taken at once: starting the call, loading the
\* snapshot and returning wait for no reload, for no other credential read
\* and for no guard of the cooldown map's lock; and reload_config can store
\* its snapshot at once whatever reads are in flight.
C13_CredentialOpsNeverWait ==
    \A t \in Threads :
        /\ pc[t] = "key_load" => ENABLED get_api_key_load(t)
        /\ pc[t] = "key_match" => ENABLED get_api_key_return(t)
        /\ pc[t] = "url_load" => ENABLED ollama_base_url_load(t)
        /\ pc[t] = "url_clone" => ENABLED ollama_base_url_return(t)
        /\ (pc[t] = "idle" /\ calls < MaxCalls) =>
              /\ ENABLED get_api_key_call(t, "ollama")
              /\ ENABLED ollama_base_url_call(t)
        /\ (pc[t] = "idle" /\ Len(installed) <= MaxReloads) =>
              ENABLED reload_config(t, MkConfig(ConfigFields, Len(installed) + 1))

\* A get_api_key about to load the snapshot while another thread holds the
\* write guard of the cooldown map, after a reload.
C13_Witness ==
    \E t \in Threads :
        /\ pc[t] = "key_load"
        /\ lock_writer \notin { NoThread, t }
        /\ Len(installed) > 1

(***************************************************************************)
(* What each method of the tracker changes in the map.                     *)
(***************************************************************************)
\* Thread t's is_rate_limited takes a step: its first poll of the lock, or
\* its lookup and return.
CheckCallStep(t) ==
    \/ pc[t] = "idle" /\ call'[t].op = "is_rate_limited"
    \/ CheckStep(t)

\* C14: no step of is_rate_limited changes the cooldown map, whether the
\* call returns true or false: the key set and every recorded instant are
\* the same after the step as before it, an expired entry included.
C14_CheckLeavesMapUnchanged ==
    [][ \A t \in Threads : CheckCallStep(t) => rate_limited' = rate_limited ]_vars

\* A check that returned false for a model whose entry, expired, is still
\* in the map.
C14_Witness ==
    /\ last.op = "is_rate_limited"
    /\ last.res = Some(FALSE)
    /\ last.arg \in DOMAIN rate_limited
    /\ now >= rate_limited[last.arg] + MaxCooldown * TicksPerSec

\* Thread t's record_rate_limit reads the clock in this step.
ClockStep(t) == pc[t] = "rec_now" /\ pc'[t] = "rec_insert"

\* Thread t's record_rate_limit inserts its entry and returns in this step.
InsertStep(t) == pc[t] = "rec_insert" /\ pc'[t] = "idle"

\* C15: record_rate_limit(m) reads the current time and sets the entry of m
\* to it, replacing whatever instant the map held for m (the map holds one
\* instant per model, the latest recorded), and leaves the entry of every
\* other model as it was.
C15_RecordOverwritesOnlyItsModel ==
    [][ \A t \in Threads :
          /\ ClockStep(t) => limited_at'[t] = now
          /\ InsertStep(t) =>
               /\ DOMAIN rate_limited' = DOMAIN rate_limited \cup { call[t].arg }
               /\ rate_limited'[call[t].arg] = limited_at[t]
               /\ \A k \in DOMAIN rate_limited \ { call[t].arg } :
                    rate_limited'[k] = rate_limited[k] ]_vars

\* Three records of two models have completed, at three different times:
\* one of them replaced the earlier instant of its model, and the last one
\* left the entry of the other model in place.
C15_Witness ==
    /\ last.op = "record_rate_limit"
    /\ DOMAIN rate_limited = Models
    /\ \E k \in Models \ { last.arg } :
         /\ rate_limited[k] < rate_limited[last.arg]
         /\ rate_limited[k] > 0
    /\ calls = MaxRateCalls
    /\ \A t \in Threads : pc[t] = "idle"

\* Thread t is inside record_rate_limit, past the lock.
Recording(t) == pc[t] \in { "rec_now", "rec_insert" }

\* C16: with records of one model running concurrently and no cleanup, the
\* record that reads the clock and inserts is the one that obtained the
\* write guard last, alone inside; the map changes in no other step; so the
\* instant the map holds for a model is always the one written by the last
\* record of it to obtain the guard, whole, and an entry once written is
\* never lost.
C16_LastWriterWins ==
    [][ /\ \A t \in Threads :
             (ClockStep(t) \/ InsertStep(t)) =>
                /\ lock_writer = t
                /\ \A u \in Threads \ { t } : ~Recording(u)
        /\ \A t \in Threads :
             InsertStep(t) =>
                /\ rate_limited'[call[t].arg] = limited_at[t]
                /\ stamped'[call[t].arg] = Some(limited_at[t])
        /\ rate_limited' # rate_limited => \E t \in Threads : InsertStep(t)
        /\ \A m \in Models :
             stamped'[m] # None =>
                (m \in DOMAIN rate_limited' /\ rate_limited'[m] = stamped'[m][1]) ]_vars

\* Two records of one model overlapped, the second queued for the guard
\* behind the first; the map holds the instant of the second, a later one.
C16_Witness ==
    /\ calls = 2
    /\ last.op = "record_rate_limit"
    /\ last.waited
    /\ DOMAIN rate_limited = { last.arg }
    /\ rate_limited[last.arg] > 0
    /\ \A m \in Models \ { last.arg } : NeverRecorded(m)
    /\ \A t \in Threads : pc[t] = "idle"

(***************************************************************************)
(* The readers-writer discipline of the cooldown map.                      *)
(***************************************************************************)
\* The threads inside record_rate_limit or cleanup_rate_limits, past the lock.
WritersInside == { t \in Threads : pc[t] \in { "rec_now", "rec_insert", "cln_retain" } }

\* The threads inside is_rate_limited, past the lock.
ReadersInside == { t \in Threads : pc[t] = "chk_get" }

\* C17: in every reachable state at most one record_rate_limit or
\* cleanup_rate_limits is inside the map, no is_rate_limited is inside
\* while one of them is, and the threads inside are exactly the holders of
\* the lock's guards; several is_rate_limited may be inside together.
C17_ReadersWriterDiscipline ==
    /\ Cardinality(WritersInside) <= 1
    /\ WritersInside # {} => ReadersInside = {}
    /\ WritersInside = { t \in Threads : lock_writer = t }
    /\ ReadersInside = lock_readers

\* Two is_rate_limited calls inside the map together, after a record.
C17_Witness ==
    /\ Cardinality(ReadersInside) >= 2
    /\ WritersInside = {}
    /\ DOMAIN rate_limited # {}

(***************************************************************************)
(* The credential snapshot and the cooldown map, side by side.             *)
(***************************************************************************)
CredPcs == { "key_load", "key_match", "url_load", "url_clone" }
RatePcs == { "queued", "rec_now", "rec_insert", "chk_get", "cln_retain" }

\* This step is a reload_config.
ReloadStep == installed' # installed

\* This step is one of a get_api_key or an ollama_base_url.
CredReadStep ==
    \E t \in Threads : pc'[t] # pc[t] /\ (pc[t] \in CredPcs \/ pc'[t] \in CredPcs)

\* This step is a resolve_model.
ResolveStep == last'.op = "resolve_model" /\ calls' = calls + 1 /\ pc' = pc

\* This step is one of a record_rate_limit, an is_rate_limited or a
\* cleanup_rate_limits.
RateStep ==
    \E t \in Threads :
        \/ pc'[t] # pc[t] /\ (pc[t] \in RatePcs \/ pc'[t] \in RatePcs)
        \/ pc[t] = "cln_retain" /\ (kept'[t] # kept[t] \/ rate_limited' # rate_limited)

\* C18: reload_config, get_api_key (whatever it returns), ollama_base_url
\* and resolve_model leave the cooldown map and its lock as they are;
\* record_rate_limit, is_rate_limited and cleanup_rate_limits leave the
\* current snapshot as it is; the snapshot changes in a reload_config step
\* and in no other, and the map in a step of the tracker and in no other.
C18_SnapshotAndMapIndependent ==
    [][ /\ (ReloadStep \/ CredReadStep \/ ResolveStep) =>
             UNCHANGED << rate_limited, lock_writer, lock_readers, lock_waiters >>
        /\ RateStep => config' = config
        /\ config' # config => ReloadStep
        /\ rate_limited' # rate_limited => RateStep
        /\ ReloadStep \/ CredReadStep \/ ResolveStep \/ RateStep ]_vars

\* A get_api_key has failed with MissingProviderKey on a reloaded snapshot
\* while the map holds an entry and a thread is inside the tracker.
C18_Witness ==
    /\ last.op = "get_api_key"
    /\ last.res = MissingProviderKey("ollama")
    /\ Len(installed) > 1
    /\ DOMAIN rate_limited # {}
    /\ \E t \in Threads : pc[t] \in RatePcs

(***************************************************************************)
(* The resolver on a manager whose snapshot and cooldown map change        *)
(* between the calls.                                                      *)
(***************************************************************************)
\* One thread resolves names; another reloads the snapshot and records
\* rate limits in between.
Resolver == Min(Threads)
Other == Max(Threads)

PureNext ==
    \/ \E s \in ModelNames : resolve_model(Resolver, s)
    \/ \E S \in ConcFieldSets : reload_config(Other, MkConfig(S, Len(installed) + 1))
    \/ record_rate_limit_call(Other, "m1")
    \/ record_rate_limit_now(Other)
    \/ record_rate_limit_insert(Other)

SpecPure == FixedInit /\ [][PureNext]_vars

\* C19: resolve_model returns Ok for every input, the empty string and a
\* string that begins with '/' included; a call with the same input made
\* now, whatever snapshot and cooldown map the manager has come to hold,
\* returns the same pair; and when the input contains '/', the provider
\* contains none and provider, "/" and model put together give the input.
C19_ResolveTotalDeterministic ==
    last.op = "resolve_model" =>
       /\ last.res.tag = "Ok"
       /\ last.res = resolve_model_value(last.arg)
       /\ HasSlash(last.arg) =>
            /\ ~HasSlash(last.res.provider)
            /\ last.res.provider \o << "/" >> \o last.res.model = last.arg

\* A name that begins with '/' was resolved to an empty provider; the
\* snapshot has been replaced and the map has an entry.
C19_Witness ==
    /\ last.op = "resolve_model"
    /\ last.arg = << "/", "a", "/" >>
    /\ last.res.provider = << >>
    /\ last.res.model = << "a", "/" >>
    /\ Len(installed) > 1
    /\ DOMAIN rate_limited # {}

(***************************************************************************)
(* The stored instants and the clock.                                      *)
(***************************************************************************)
\* C20: the clock never goes back; record_rate_limit reads it only while it
\* holds the write guard; so in every step the instant stored for a model
\* that keeps its entry stays or grows, a record that overwrites an entry
\* stores an instant at least as late as the one it replaces, in every
\* interleaving of concurrent records, and no stored instant is later than
\* the current time.
C20_InstantsNeverGoBack ==
    [][ /\ now' >= now
        /\ \A t \in Threads : ClockStep(t) => lock_writer = t
        /\ \A m \in DOMAIN rate_limited \cap DOMAIN rate_limited' :
             rate_limited'[m] >= rate_limited[m]
        /\ \A m \in DOMAIN rate_limited' : rate_limited'[m] <= now' ]_vars

\* The one entry of the map was overwritten by a record that did not have
\* to wait, with an instant two ticks or more after the first record's.
C20_Witness ==
    /\ last.op = "record_rate_limit"
    /\ ~last.waited
    /\ DOMAIN rate_limited = { last.arg }
    /\ \A m \in Models \ { last.arg } : NeverRecorded(m)
    /\ rate_limited[last.arg] >= 2
    /\ rate_limited[last.arg] < now
    /\ \A t \in Threads : pc[t] = "idle"

=============================================================================
